---- MODULE Spec2Model ----
(***************************************************************************)
(* Model of lobsterMoneyBot: the phrase store (src/app/db.py, class        *)
(* Database) and the command handlers that use it (src/app/bot.py, class   *)
(* BotApp).                                                                *)
(*                                                                         *)
(* Text is a sequence of one-character strings.  An Optional[...] value is *)
(* a sequence of length 0 (None) or 1.                                     *)
(***************************************************************************)
EXTENDS Integers, Sequences, FiniteSets, TLC

VARIABLES
    sQuery,     \* argument `query` of a direct call of Database._score
    sPhrase,    \* argument `phrase` of that call
    sScore,     \* its return value: <<>> before the call, <<n>> after
    owner_ids,  \* Config.owner_ids, loaded by BotApp.__init__
    phase,      \* "boot" while BotApp.run is in _ensure_db, "run" afterwards
    owners,     \* table owners: user_id -> [username, added_at]
    mappings,   \* table mappings: the committed rows, in rowid order
    seq,        \* sqlite_sequence of mappings (AUTOINCREMENT high-water mark)
    lock,       \* Database._lock: "free" or the task that holds it
    clock,      \* datetime.utcnow(), in ticks of half a second
    pc,         \* per task: the await point its coroutine is suspended at
    loc,        \* per task: the local variables of its coroutine
    ret         \* per task: what its finished call returned / replied

vars == << sQuery, sPhrase, sScore, owner_ids, phase, owners, mappings, seq,
           lock, clock, pc, loc, ret >>

scoreVars == << sQuery, sPhrase, sScore >>
storeVars == << owners, mappings, seq >>

None == << >>
Some(x) == << x >>

Max(a, b) == IF a >= b THEN a ELSE b
Min(a, b) == IF a <= b THEN a ELSE b

(***************************************************************************)
(* Bounds of the model.                                                    *)
(***************************************************************************)
MaxLen == 3          \* longest text handed to _score directly
MaxRows == 3         \* rows stored in the search specification
MaxLimit == 3        \* largest `limit` handed to search
MaxClock == 2        \* last clock tick
MaxRowsDb == 2       \* rows stored in the concurrent Database specification
MaxRowsBot == 1      \* rows stored in the handler specification
MaxRowsPaging == 52  \* rows stored in the status-paging specification

(***************************************************************************)
(* str.lower(), str.strip(), str.startswith(), `in`, " ".join(...)          *)
(***************************************************************************)
Alphabet == {"a", "b", "A", " "}

LowerChar(c) ==
    CASE c = "A" -> "a"
      [] c = "B" -> "b"
      [] OTHER -> c

IsSpace(c) == c = " "

Lower(s) == [i \in 1..Len(s) |-> LowerChar(s[i])]

RECURSIVE LStrip(_)
LStrip(s) ==
    IF s = << >> THEN << >>
    ELSE IF IsSpace(Head(s)) THEN LStrip(Tail(s))
    ELSE s

RECURSIVE RStrip(_)
RStrip(s) ==
    IF s = << >> THEN << >>
    ELSE IF IsSpace(s[Len(s)]) THEN RStrip(SubSeq(s, 1, Len(s) - 1))
    ELSE s

Strip(s) == RStrip(LStrip(s))

StartsWith(p, q) == Len(q) <= Len(p) /\ SubSeq(p, 1, Len(q)) = q

Contains(p, q) ==
    \E i \in 0..(Len(p) - Len(q)) : SubSeq(p, i + 1, i + Len(q)) = q

RECURSIVE Join(_)
Join(words) ==
    IF words = << >> THEN << >>
    ELSE IF Len(words) = 1 THEN words[1]
    ELSE words[1] \o << " " >> \o Join(Tail(words))

(***************************************************************************)
(* Database._is_subsequence: `all(ch in it for ch in needle)` over one     *)
(* iterator of haystack; each `ch in it` consumes the iterator up to and   *)
(* including the first remaining occurrence of ch.                         *)
(***************************************************************************)
RECURSIVE IsSubsequence(_, _)
IsSubsequence(needle, haystack) ==
    IF needle = << >> THEN TRUE
    ELSE IF haystack = << >> THEN FALSE
    ELSE IF Head(haystack) = Head(needle)
         THEN IsSubsequence(Tail(needle), Tail(haystack))
         ELSE IsSubsequence(needle, Tail(haystack))

(***************************************************************************)
(* Database._score                                                         *)
(***************************************************************************)
ScoreTiersSwapped(query, phrase) ==
    LET q == Strip(Lower(query))
        p == Strip(Lower(phrase))
    IN  IF q = << >> \/ p = << >> THEN 0
        ELSE IF q = p THEN 100
        ELSE IF Contains(p, q) THEN 60
        ELSE IF StartsWith(p, q) THEN 80
        ELSE IF IsSubsequence(q, p) THEN 40
        ELSE 0

ScoreCaseSensitive(query, phrase) ==
    LET q == Strip(query)
        p == Strip(phrase)
    IN  IF q = << >> \/ p = << >> THEN 0
        ELSE IF q = p THEN 100
        ELSE IF StartsWith(p, q) THEN 80
        ELSE IF Contains(p, q) THEN 60
        ELSE IF IsSubsequence(q, p) THEN 40
        ELSE 0

Score(query, phrase) ==
    LET q == Strip(Lower(query))
        p == Strip(Lower(phrase))
    IN  IF q = << >> \/ p = << >> THEN 0
        ELSE IF q = p THEN 100
        ELSE IF StartsWith(p, q) THEN 80
        ELSE IF Contains(p, q) THEN 60
        ELSE IF IsSubsequence(q, p) THEN 40
        ELSE 0

(***************************************************************************)
(* Tasks and the initial state of everything but the _score arguments.     *)
(***************************************************************************)
Tasks == {"t1", "t2"}

IdleLoc == [op |-> "none"]
NoRet == [op |-> "none"]

InitDb ==
    /\ owners = << >>
    /\ mappings = << >>
    /\ seq = 0
    /\ lock = "free"
    /\ clock = 0
    /\ pc = [t \in Tasks |-> "idle"]
    /\ loc = [t \in Tasks |-> IdleLoc]
    /\ ret = [t \in Tasks |-> NoRet]

(***************************************************************************)
(* SpecScore: _score as a pure function of its two arguments.              *)
(***************************************************************************)
RECURSIVE TextsOfLen(_)
TextsOfLen(n) ==
    IF n = 0 THEN {<< >>}
    ELSE {<< c >> \o s : c \in Alphabet, s \in TextsOfLen(n - 1)}

Texts == UNION {TextsOfLen(n) : n \in 0..MaxLen}

InitScore ==
    /\ sQuery \in Texts
    /\ sPhrase \in Texts
    /\ sScore = None
    /\ owner_ids = {}
    /\ phase = "run"
    /\ InitDb

ScoreCall ==
    /\ sScore = None
    /\ sScore' = Some(Score(sQuery, sPhrase))
    /\ UNCHANGED << sQuery, sPhrase, owner_ids, phase, owners, mappings, seq,
                    lock, clock, pc, loc, ret >>

NextScore == ScoreCall

SpecScore == InitScore /\ [][NextScore]_vars

(***************************************************************************)
(* datetime.utcnow().isoformat(): "...MM:SS" when the microsecond is 0,    *)
(* "...MM:SS.ffffff" otherwise.  The date and the hour, the same in every  *)
(* value the bounded clock produces, are left off.  Texts compare as       *)
(* Python str and SQLite TEXT (BINARY) do: by code point, a proper prefix  *)
(* first.                                                                  *)
(***************************************************************************)
DigitChars == << "0", "1", "2", "3", "4", "5", "6", "7", "8", "9" >>

DigitChar(d) == DigitChars[d + 1]

TwoDigits(n) == << DigitChar((n \div 10) % 10), DigitChar(n % 10) >>

Pow10(k) == IF k = 0 THEN 1 ELSE IF k = 1 THEN 10 ELSE IF k = 2 THEN 100
            ELSE IF k = 3 THEN 1000 ELSE IF k = 4 THEN 10000 ELSE 100000

SixDigits(us) == [i \in 1..6 |-> DigitChar((us \div Pow10(6 - i)) % 10)]

IsoFormat(t) ==
    LET sec == t \div 2
        us == (t % 2) * 500000
    IN  TwoDigits(sec \div 60) \o << ":" >> \o TwoDigits(sec % 60)
        \o (IF us = 0 THEN << >> ELSE << "." >> \o SixDigits(us))

CodeOrder == << ".", "0", "1", "2", "3", "4", "5", "6", "7", "8", "9", ":" >>

CodePoint(c) == CHOOSE i \in 1..Len(CodeOrder) : CodeOrder[i] = c

RECURSIVE TextLess(_, _)
TextLess(a, b) ==
    IF a = << >> THEN b # << >>
    ELSE IF b = << >> THEN FALSE
    ELSE IF Head(a) = Head(b) THEN TextLess(Tail(a), Tail(b))
    ELSE CodePoint(Head(a)) < CodePoint(Head(b))

Now == IsoFormat(clock)

(***************************************************************************)
(* Database.search, after the rows are fetched: score, filter, sort,       *)
(* slice.  list.sort is stable, also with reverse=True: candidates with    *)
(* equal keys keep the order the rows were fetched in.                     *)
(***************************************************************************)
KeepsZeroScores(score) == score >= 0

IsCandidate(score) == score > 0

Candidates(query, rows) ==
    LET scored == [i \in 1..Len(rows) |->
                     [score |-> Score(query, rows[i].phrase), item |-> rows[i]]]
    IN  SelectSeq(scored, LAMBDA c : IsCandidate(c.score))

KeyGreaterOldestFirst(a, b) ==
    \/ a.score > b.score
    \/ a.score = b.score /\ TextLess(a.item.created_at, b.item.created_at)

KeyGreater(a, b) ==
    \/ a.score > b.score
    \/ a.score = b.score /\ TextLess(b.item.created_at, a.item.created_at)

InsertDesc(x, srt) ==
    LET below == {i \in 1..Len(srt) : KeyGreater(x, srt[i])}
        pos == IF below = {} THEN Len(srt) + 1
               ELSE CHOOSE i \in below : \A j \in below : i <= j
    IN  SubSeq(srt, 1, pos - 1) \o << x >> \o SubSeq(srt, pos, Len(srt))

RECURSIVE SortDesc(_)
SortDesc(s) ==
    IF s = << >> THEN << >>
    ELSE InsertDesc(s[Len(s)], SortDesc(SubSeq(s, 1, Len(s) - 1)))

SliceOneMore(s, limit) ==
    IF limit >= 0 THEN SubSeq(s, 1, Min(limit + 1, Len(s)))
    ELSE SubSeq(s, 1, Max(0, Len(s) + limit + 1))

Slice(s, limit) ==
    IF limit >= 0 THEN SubSeq(s, 1, Min(limit, Len(s)))
    ELSE SubSeq(s, 1, Max(0, Len(s) + limit))

Items(cands) == [i \in 1..Len(cands) |-> cands[i].item]

SearchSliceThenSort(query, limit, rows) ==
    Items(SortDesc(Slice(Candidates(query, rows), limit)))

SearchResult(query, limit, rows) ==
    Items(Slice(SortDesc(Candidates(query, rows)), limit))

(***************************************************************************)
(* SQL pieces: AUTOINCREMENT, INSERT OR IGNORE, LIMIT ? OFFSET ?           *)
(***************************************************************************)
NextRowIdStale == Max(seq, 1)

NextRowId == seq + 1

InsertOrIgnore(tbl, ids, username, now) ==
    [u \in (DOMAIN tbl) \cup ids |->
        IF u \in DOMAIN tbl THEN tbl[u]
        ELSE [username |-> username, added_at |-> now]]

\* Rows a `LIMIT limit OFFSET offset` query returns out of n: a negative
\* LIMIT is no limit, a negative OFFSET is 0.  The order of rows with equal
\* created_at is SQLite's choice, so only the number of rows is modelled.
PageCount(n, limit, offset) ==
    LET avail == Max(0, n - Max(0, offset))
    IN  IF limit < 0 THEN avail ELSE Min(limit, avail)

(***************************************************************************)
(* `async with self._lock`                                                 *)
(***************************************************************************)
LockNotChecked == TRUE

LockFree == lock = "free"

WriterPcs == {"am_insert", "am_commit", "am_close",
              "ao_insert", "ao_commit", "ao_close",
              "so_insert", "so_commit", "so_close"}

AddsInFlight == Cardinality({t \in Tasks : loc[t].op = "add_mapping"})

CanAdd(maxRows) == Len(mappings) + AddsInFlight < maxRows

Return(t, r) ==
    /\ pc' = [pc EXCEPT ![t] = "idle"]
    /\ loc' = [loc EXCEPT ![t] = IdleLoc]
    /\ ret' = [ret EXCEPT ![t] = r]

Call(t, at, l) ==
    /\ pc' = [pc EXCEPT ![t] = at]
    /\ loc' = [loc EXCEPT ![t] = l]
    /\ ret' = [ret EXCEPT ![t] = NoRet]

(***************************************************************************)
(* Database.add_mapping                                                    *)
(***************************************************************************)
CallAddMapping(t, phrase, file_id, owner_user_id, owner_username) ==
    /\ pc[t] = "idle"
    /\ Call(t, "am_lock",
            [op |-> "add_mapping", phrase |-> phrase, file_id |-> file_id,
             owner_user_id |-> owner_user_id,
             owner_username |-> owner_username, now |-> Now])
    /\ UNCHANGED << scoreVars, owner_ids, phase, storeVars, lock, clock >>

AmAcquire(t) ==
    /\ pc[t] = "am_lock"
    /\ LockFree
    /\ lock' = t
    /\ pc' = [pc EXCEPT ![t] = "am_insert"]
    /\ UNCHANGED << scoreVars, owner_ids, phase, storeVars, clock, loc, ret >>

AmInsert(t) ==
    /\ pc[t] = "am_insert"
    /\ pc' = [pc EXCEPT ![t] = "am_commit"]
    /\ loc' = [loc EXCEPT ![t] =
                 [op |-> "add_mapping",
                  row |-> [id |-> NextRowId,
                           phrase |-> loc[t].phrase,
                           file_id |-> loc[t].file_id,
                           owner_user_id |-> loc[t].owner_user_id,
                           owner_username |-> loc[t].owner_username,
                           created_at |-> loc[t].now]]]
    /\ UNCHANGED << scoreVars, owner_ids, phase, storeVars, lock, clock, ret >>

AmCommit(t) ==
    /\ pc[t] = "am_commit"
    /\ mappings' = Append(mappings, loc[t].row)
    /\ seq' = Max(seq, loc[t].row.id)
    /\ pc' = [pc EXCEPT ![t] = "am_close"]
    /\ UNCHANGED << scoreVars, owner_ids, phase, owners, lock, clock, loc, ret >>

AmReturn(t) ==
    /\ pc[t] = "am_close"
    /\ lock' = "free"
    /\ Return(t, [op |-> "add_mapping", id |-> loc[t].row.id])
    /\ UNCHANGED << scoreVars, owner_ids, phase, storeVars, clock >>

(***************************************************************************)
(* Database.add_owner                                                      *)
(***************************************************************************)
CallAddOwner(t, user_id, username) ==
    /\ pc[t] = "idle"
    /\ Call(t, "ao_lock",
            [op |-> "add_owner", user_id |-> user_id, username |-> username,
             now |-> Now])
    /\ UNCHANGED << scoreVars, owner_ids, phase, storeVars, lock, clock >>

AoAcquire(t) ==
    /\ pc[t] = "ao_lock"
    /\ LockFree
    /\ lock' = t
    /\ pc' = [pc EXCEPT ![t] = "ao_insert"]
    /\ UNCHANGED << scoreVars, owner_ids, phase, storeVars, clock, loc, ret >>

AoInsert(t) ==
    /\ pc[t] = "ao_insert"
    /\ pc' = [pc EXCEPT ![t] = "ao_commit"]
    /\ UNCHANGED << scoreVars, owner_ids, phase, storeVars, lock, clock, loc,
                    ret >>

AoCommit(t) ==
    /\ pc[t] = "ao_commit"
    /\ owners' = InsertOrIgnore(owners, {loc[t].user_id}, loc[t].username,
                                loc[t].now)
    /\ pc' = [pc EXCEPT ![t] = "ao_close"]
    /\ UNCHANGED << scoreVars, owner_ids, phase, mappings, seq, lock, clock,
                    loc, ret >>

AoReturn(t) ==
    /\ pc[t] = "ao_close"
    /\ lock' = "free"
    /\ Return(t, [op |-> "add_owner", user_id |-> loc[t].user_id])
    /\ UNCHANGED << scoreVars, owner_ids, phase, storeVars, clock >>

(***************************************************************************)
(* Database.seed_owners                                                    *)
(***************************************************************************)
CallSeedOwners(t, ids) ==
    /\ pc[t] = "idle"
    /\ IF ids = {}
       THEN Return(t, [op |-> "seed_owners", ids |-> ids])
       ELSE Call(t, "so_lock", [op |-> "seed_owners", ids |-> ids, now |-> Now])
    /\ UNCHANGED << scoreVars, owner_ids, phase, storeVars, lock, clock >>

SoAcquire(t) ==
    /\ pc[t] = "so_lock"
    /\ LockFree
    /\ lock' = t
    /\ pc' = [pc EXCEPT ![t] = "so_insert"]
    /\ UNCHANGED << scoreVars, owner_ids, phase, storeVars, clock, loc, ret >>

SoInsert(t) ==
    /\ pc[t] = "so_insert"
    /\ pc' = [pc EXCEPT ![t] = "so_commit"]
    /\ UNCHANGED << scoreVars, owner_ids, phase, storeVars, lock, clock, loc,
                    ret >>

SoCommit(t) ==
    /\ pc[t] = "so_commit"
    /\ owners' = InsertOrIgnore(owners, loc[t].ids, None, loc[t].now)
    /\ pc' = [pc EXCEPT ![t] = "so_close"]
    /\ UNCHANGED << scoreVars, owner_ids, phase, mappings, seq, lock, clock,
                    loc, ret >>

SoReturn(t) ==
    /\ pc[t] = "so_close"
    /\ lock' = "free"
    /\ Return(t, [op |-> "seed_owners", ids |-> loc[t].ids])
    /\ UNCHANGED << scoreVars, owner_ids, phase, storeVars, clock >>

(***************************************************************************)
(* The reads: is_owner, count_mappings, list_mappings,                     *)
(* list_mappings_paginated, search.  Each is one SELECT on a connection of *)
(* its own and takes no lock.                                              *)
(***************************************************************************)
IsOwner(t, user_id) ==
    /\ pc[t] = "idle"
    /\ Return(t, [op |-> "is_owner", user_id |-> user_id,
                  value |-> user_id \in DOMAIN owners])
    /\ UNCHANGED << scoreVars, owner_ids, phase, storeVars, lock, clock >>

CountMappings(t) ==
    /\ pc[t] = "idle"
    /\ Return(t, [op |-> "count_mappings", value |-> Len(mappings)])
    /\ UNCHANGED << scoreVars, owner_ids, phase, storeVars, lock, clock >>

ListMappings(t, limit) ==
    /\ pc[t] = "idle"
    /\ Return(t, [op |-> "list_mappings", limit |-> limit,
                  n |-> PageCount(Len(mappings), limit, 0)])
    /\ UNCHANGED << scoreVars, owner_ids, phase, storeVars, lock, clock >>

ListMappingsPaginated(t, limit, offset) ==
    /\ pc[t] = "idle"
    /\ Return(t, [op |-> "list_mappings_paginated", limit |-> limit,
                  offset |-> offset,
                  n |-> PageCount(Len(mappings), limit, offset)])
    /\ UNCHANGED << scoreVars, owner_ids, phase, storeVars, lock, clock >>

Search(t, query, limit) ==
    /\ pc[t] = "idle"
    /\ Return(t, [op |-> "search", query |-> query, limit |-> limit,
                  rows |-> mappings,
                  value |-> SearchResult(query, limit, mappings)])
    /\ UNCHANGED << scoreVars, owner_ids, phase, storeVars, lock, clock >>

Tick ==
    /\ clock < MaxClock
    /\ clock' = clock + 1
    /\ UNCHANGED << scoreVars, owner_ids, phase, storeVars, lock, pc, loc, ret >>

(***************************************************************************)
(* SpecSearch: one caller stores phrases and searches them.                *)
(***************************************************************************)
Text(str) ==
    CASE str = "" -> << >>
      [] str = " " -> << " " >>
      [] str = "a" -> << "a" >>
      [] str = "b" -> << "b" >>
      [] str = "B" -> << "B" >>
      [] str = "Ab" -> << "A", "b" >>
      [] str = "ba" -> << "b", "a" >>
      [] str = "a b" -> << "a", " ", "b" >>

SearchPhrases == {Text("a"), Text("Ab"), Text("ba")}
SearchQueries == {Text(""), Text(" "), Text("a"), Text("B")}
SearchLimits == (-1)..MaxLimit

InitIdle ==
    /\ sQuery = << >>
    /\ sPhrase = << >>
    /\ sScore = None
    /\ owner_ids = {}
    /\ phase = "run"
    /\ InitDb

NextSearch ==
    \/ Tick
    \/ \E ph \in SearchPhrases :
          CanAdd(MaxRows) /\ CallAddMapping("t1", ph, "f1", None, None)
    \/ AmAcquire("t1")
    \/ AmInsert("t1")
    \/ AmCommit("t1")
    \/ AmReturn("t1")
    \/ \E q \in SearchQueries, k \in SearchLimits : Search("t1", q, k)

SpecSearch == InitIdle /\ [][NextSearch]_vars

(***************************************************************************)
(* SpecDb: two callers use one Database concurrently; a coroutine can be   *)
(* suspended at each await.  All calls fall within one clock tick.         *)
(***************************************************************************)
UsernameOf(u) == IF u = 1 THEN Some("alice") ELSE None

DbPhrases == {Text("a")}
DbUsers == {1, 2}
DbSeeds == {{}, {1, 2}}

NextDb ==
    \/ \E t \in Tasks :
        \/ \E ph \in DbPhrases, u \in {None, Some(1)} :
              /\ CanAdd(MaxRowsDb)
              /\ CallAddMapping(t, ph, "f1", u,
                                IF u = None THEN None ELSE UsernameOf(u[1]))
        \/ AmAcquire(t)
        \/ AmInsert(t)
        \/ AmCommit(t)
        \/ AmReturn(t)
        \/ \E u \in DbUsers : CallAddOwner(t, u, UsernameOf(u))
        \/ AoAcquire(t)
        \/ AoInsert(t)
        \/ AoCommit(t)
        \/ AoReturn(t)
        \/ \E ids \in DbSeeds : CallSeedOwners(t, ids)
        \/ SoAcquire(t)
        \/ SoInsert(t)
        \/ SoCommit(t)
        \/ SoReturn(t)
        \/ \E u \in DbUsers : IsOwner(t, u)
        \/ CountMappings(t)
        \/ ListMappings(t, 1)
        \/ ListMappingsPaginated(t, 1, 1)
        \/ Search(t, Text("a"), 1)

SpecDb == InitIdle /\ [][NextDb]_vars

(***************************************************************************)
(* int(context.args[0]): an optional sign and at least one decimal digit,  *)
(* anything else raises ValueError (None here).                            *)
(***************************************************************************)
DigitValue(c) == (CHOOSE i \in 1..10 : DigitChars[i] = c) - 1

IsDigit(c) == \E i \in 1..10 : DigitChars[i] = c

RECURSIVE DigitsValue(_)
DigitsValue(w) ==
    IF w = << >> THEN 0
    ELSE DigitsValue(SubSeq(w, 1, Len(w) - 1)) * 10 + DigitValue(w[Len(w)])

ParseInt(w) ==
    LET signed == w # << >> /\ w[1] \in {"-", "+"}
        body == IF signed THEN Tail(w) ELSE w
    IN  IF body = << >> \/ \E i \in 1..Len(body) : ~ IsDigit(body[i]) THEN None
        ELSE IF signed /\ w[1] = "-" THEN Some(0 - DigitsValue(body))
        ELSE Some(DigitsValue(body))

(***************************************************************************)
(* BotApp._is_owner, and BotApp.run up to the start of polling             *)
(***************************************************************************)
BotIsOwnerStored(user_id) == user_id \in DOMAIN owners

BotIsOwner(user_id) == user_id # 0 /\ user_id \in owner_ids

Rejected(user) == user = None \/ ~ BotIsOwner(user[1])

EnsureDb ==
    /\ phase = "boot"
    /\ ret["t1"] = NoRet
    /\ CallSeedOwners("t1", owner_ids)

StartPolling ==
    /\ phase = "boot"
    /\ pc["t1"] = "idle"
    /\ ret["t1"].op = "seed_owners"
    /\ phase' = "run"
    /\ ret' = [ret EXCEPT !["t1"] = NoRet]
    /\ UNCHANGED << scoreVars, owner_ids, storeVars, lock, clock, pc, loc >>

Reply(t, handler, user, text) ==
    /\ Return(t, [op |-> handler, user |-> user, reply |-> text])
    /\ UNCHANGED << scoreVars, owner_ids, phase, storeVars, lock, clock >>

(***************************************************************************)
(* BotApp.remember_cmd; `reply` is the message the command replies to:     *)
(* None, or Some(video) with video None or Some(file_id).                  *)
(***************************************************************************)
RememberCmd(t, user, args, reply, maxRows) ==
    /\ phase = "run"
    /\ pc[t] = "idle"
    /\ LET phrase == Strip(Join(args))
       IN  IF Rejected(user) THEN Reply(t, "remember_cmd", user, "")
           ELSE IF args = << >> THEN Reply(t, "remember_cmd", user, "usage")
           ELSE IF phrase = << >> THEN Reply(t, "remember_cmd", user, "empty phrase")
           ELSE IF reply = None THEN Reply(t, "remember_cmd", user, "not a reply")
           ELSE IF reply[1] = None THEN Reply(t, "remember_cmd", user, "no video")
           ELSE /\ CanAdd(maxRows)
                /\ CallAddMapping(t, phrase, reply[1][1], user,
                                  UsernameOf(user[1]))

(***************************************************************************)
(* BotApp.add_owner_cmd                                                    *)
(***************************************************************************)
AddOwnerCmd(t, user, args) ==
    /\ phase = "run"
    /\ pc[t] = "idle"
    /\ IF Rejected(user) THEN Reply(t, "add_owner_cmd", user, "")
       ELSE IF args = << >> THEN Reply(t, "add_owner_cmd", user, "usage")
       ELSE IF ParseInt(args[1]) = None
            THEN Reply(t, "add_owner_cmd", user, "invalid user_id")
       ELSE CallAddOwner(t, ParseInt(args[1])[1], None)

(***************************************************************************)
(* BotApp.status_cmd: the page argument, count_mappings, the clamp, then   *)
(* (after an await) list_mappings_paginated.                               *)
(***************************************************************************)
PageSize == 50

PageArg(args) ==
    IF args # << >>
    THEN LET v == ParseInt(args[1])
         IN  IF v = None THEN 1 ELSE Max(1, v[1])
    ELSE 1

PagingUnclamped(page, total) ==
    LET max_page == Max(1, (total + PageSize - 1) \div PageSize)
    IN  [page |-> page, max_page |-> max_page, total |-> total,
         offset |-> (page - 1) * PageSize]

Paging(page, total) ==
    LET max_page == Max(1, (total + PageSize - 1) \div PageSize)
        clamped == Min(page, max_page)
    IN  [page |-> clamped, max_page |-> max_page, total |-> total,
         offset |-> (clamped - 1) * PageSize]

StatusCmd(t, user, args) ==
    /\ phase = "run"
    /\ pc[t] = "idle"
    /\ IF Rejected(user) THEN Reply(t, "status_cmd", user, "")
       ELSE IF Len(mappings) = 0 THEN Reply(t, "status_cmd", user, "no mappings")
       ELSE /\ Call(t, "st_list",
                    [op |-> "status_cmd", user |-> user,
                     paging |-> Paging(PageArg(args), Len(mappings))])
            /\ UNCHANGED << scoreVars, owner_ids, phase, storeVars, lock,
                            clock >>

StatusList(t) ==
    /\ pc[t] = "st_list"
    /\ Return(t, [op |-> "status_cmd", user |-> loc[t].user, reply |-> "page",
                  paging |-> loc[t].paging,
                  items |-> PageCount(Len(mappings), PageSize,
                                      loc[t].paging.offset)])
    /\ UNCHANGED << scoreVars, owner_ids, phase, storeVars, lock, clock >>

(***************************************************************************)
(* BotApp.inline_query                                                     *)
(***************************************************************************)
InlineLimit == 10

InlineQuery(t, text) ==
    /\ phase = "run"
    /\ pc[t] = "idle"
    /\ IF Strip(text) = << >>
       THEN /\ Return(t, [op |-> "inline_query", answered |-> FALSE])
            /\ UNCHANGED << scoreVars, owner_ids, phase, storeVars, lock,
                            clock >>
       ELSE Search(t, Strip(text), InlineLimit)

(***************************************************************************)
(* SpecBot: the bot from construction on; two updates can be in progress,  *)
(* all within one clock tick.                                              *)
(***************************************************************************)
ConfigOwnerIds == {{}, {1}, {0, 1}, {1, 2}}
BotUsers == {None, Some(0), Some(1), Some(2)}
RememberArgs == {<< >>, << Text("a") >>, << Text("a"), Text("b") >>,
                 << Text(" ") >>}
ReplyTo == {None, Some(None), Some(Some("f1"))}
OwnerArgs == {<< >>, << << "2" >> >>, << << "x" >> >>, << << "0" >> >>}
PageArgs == {<< >>, << << "x" >> >>, << << "0" >> >>, << << "2" >> >>,
             << << "-", "1" >> >>, << << "9" >> >>}
InlineTexts == {Text(" "), Text("a")}

InitBot ==
    /\ sQuery = << >>
    /\ sPhrase = << >>
    /\ sScore = None
    /\ owner_ids \in ConfigOwnerIds
    /\ phase = "boot"
    /\ InitDb

NextBot ==
    \/ EnsureDb
    \/ StartPolling
    \/ \E t \in Tasks :
        \/ \E u \in BotUsers, a \in RememberArgs, r \in ReplyTo :
              RememberCmd(t, u, a, r, MaxRowsBot)
        \/ \E u \in BotUsers, a \in OwnerArgs : AddOwnerCmd(t, u, a)
        \/ \E u \in BotUsers, a \in PageArgs : StatusCmd(t, u, a)
        \/ StatusList(t)
        \/ \E q \in InlineTexts : InlineQuery(t, q)
        \/ AmAcquire(t)
        \/ AmInsert(t)
        \/ AmCommit(t)
        \/ AmReturn(t)
        \/ AoAcquire(t)
        \/ AoInsert(t)
        \/ AoCommit(t)
        \/ AoReturn(t)
        \/ SoAcquire(t)
        \/ SoInsert(t)
        \/ SoCommit(t)
        \/ SoReturn(t)

SpecBot == InitBot /\ [][NextBot]_vars

(***************************************************************************)
(* SpecPaging: one owner pages through the listing (task t1) while the     *)
(* same owner keeps storing phrases (task t2), within one clock tick.      *)
(***************************************************************************)
InitPaging ==
    /\ sQuery = << >>
    /\ sPhrase = << >>
    /\ sScore = None
    /\ owner_ids = {1}
    /\ phase = "boot"
    /\ InitDb

NextPaging ==
    \/ EnsureDb
    \/ SoAcquire("t1")
    \/ SoInsert("t1")
    \/ SoCommit("t1")
    \/ SoReturn("t1")
    \/ StartPolling
    \/ RememberCmd("t2", Some(1), << Text("a") >>, Some(Some("f1")),
                   MaxRowsPaging)
    \/ AmAcquire("t2")
    \/ AmInsert("t2")
    \/ AmCommit("t2")
    \/ AmReturn("t2")
    \/ \E a \in PageArgs : StatusCmd("t1", Some(1), a)
    \/ StatusList("t1")

SpecPaging == InitPaging /\ [][NextPaging]_vars

(***************************************************************************)
(* Vocabulary of the claims about _score, stated without the operators     *)
(* the model of _score is built from.                                      *)
(***************************************************************************)
Canon(s) ==
    LET low == [i \in 1..Len(s) |->
                  IF s[i] = "A" THEN "a" ELSE IF s[i] = "B" THEN "b" ELSE s[i]]
        ink == {i \in 1..Len(s) : low[i] # " "}
    IN  IF ink = {} THEN << >>
        ELSE SubSeq(low,
                    CHOOSE i \in ink : \A j \in ink : i <= j,
                    CHOOSE i \in ink : \A j \in ink : j <= i)

IsPrefixOf(q, p) ==
    Len(q) <= Len(p) /\ \A i \in 1..Len(q) : p[i] = q[i]

IsSubstringOf(q, p) ==
    \E k \in 0..(Len(p) - Len(q)) : \A i \in 1..Len(q) : p[k + i] = q[i]

PickAt(p, S) ==
    [k \in 1..Cardinality(S) |->
        p[CHOOSE i \in S : Cardinality({j \in S : j < i}) = k - 1]]

IsEmbeddedIn(q, p) ==
    \E S \in SUBSET (1..Len(p)) : Cardinality(S) = Len(q) /\ PickAt(p, S) = q

FirstTier(q, p) ==
    IF q = << >> \/ p = << >> THEN 0
    ELSE IF q = p THEN 100
    ELSE IF IsPrefixOf(q, p) THEN 80
    ELSE IF IsSubstringOf(q, p) THEN 60
    ELSE IF IsEmbeddedIn(q, p) THEN 40
    ELSE 0

(* C1: score(query, phrase) is computed on the lower-cased, trimmed texts  *)
(* and is the value of the first satisfied tier (empty 0, equal 100,       *)
(* prefix 80, substring 60, in-order subsequence 40, else 0); it lies in   *)
(* {0, 40, 60, 80, 100}, and a pair of non-empty texts that satisfies a    *)
(* tier never scores below that tier's value.                              *)
C1_ScoreTiers ==
    sScore # None =>
        LET q == Canon(sQuery)
            p == Canon(sPhrase)
            v == sScore[1]
        IN  /\ v = FirstTier(q, p)
            /\ v \in {0, 40, 60, 80, 100}
            /\ (q # << >> /\ p # << >>) =>
                  /\ q = p => v >= 100
                  /\ IsPrefixOf(q, p) => v >= 80
                  /\ IsSubstringOf(q, p) => v >= 60
                  /\ IsEmbeddedIn(q, p) => v >= 40

C1_Witness ==
    /\ sScore = Some(40)
    /\ sQuery # Canon(sQuery)
    /\ ~ IsSubstringOf(Canon(sQuery), Canon(sPhrase))

(* C2 as stated: score(q, p) = 100 exactly when the normalized q equals    *)
(* the normalized p, for all inputs, those normalizing to the empty text   *)
(* included.                                                               *)
C2_Original ==
    sScore # None => (sScore[1] = 100 <=> Canon(sQuery) = Canon(sPhrase))

(* C2 amended: score(q, p) = 100 exactly when the normalized q equals the  *)
(* normalized p and that text is not empty; when both normalize to the     *)
(* empty text the score is 0.                                              *)
C2_ExactIffEqualNonEmpty ==
    sScore # None =>
        /\ sScore[1] = 100 <=>
              (Canon(sQuery) = Canon(sPhrase) /\ Canon(sQuery) # << >>)
        /\ (Canon(sQuery) = << >> /\ Canon(sPhrase) = << >>) => sScore[1] = 0

C2_Witness ==
    /\ sScore = Some(100)
    /\ sQuery # sPhrase

(***************************************************************************)
(* Vocabulary of the claims about search: the score the specification      *)
(* gives a row, the time a created_at text stands for, and the ranking.    *)
(***************************************************************************)
RowScore(q, r) == FirstTier(Canon(q), Canon(r.phrase))

TimeOf(created_at) == CHOOSE t \in 0..MaxClock : IsoFormat(t) = created_at

Matching(q, rows) == {i \in 1..Len(rows) : RowScore(q, rows[i]) > 0}

RanksNoLower(q, a, b) ==
    \/ RowScore(q, a) > RowScore(q, b)
    \/ /\ RowScore(q, a) = RowScore(q, b)
       /\ TimeOf(a.created_at) >= TimeOf(b.created_at)

IsRanked(q, s) == \A i \in 1..(Len(s) - 1) : RanksNoLower(q, s[i], s[i + 1])

\* s holds n of the matching rows, each once, in ranked order, and no
\* matching row left out ranks strictly above one that is in s
IsFirstOfRanked(q, rows, s, n) ==
    /\ Len(s) = n
    /\ \A i \in 1..Len(s) : \E j \in Matching(q, rows) : rows[j] = s[i]
    /\ \A i, j \in 1..Len(s) : i # j => s[i] # s[j]
    /\ IsRanked(q, s)
    /\ \A j \in Matching(q, rows) :
          (\A i \in 1..Len(s) : s[i] # rows[j]) =>
              \A i \in 1..Len(s) : RanksNoLower(q, s[i], rows[j])

Searched == {t \in Tasks : ret[t].op = "search"}

IsPrefix(s, l) == Len(s) <= Len(l) /\ SubSeq(l, 1, Len(s)) = s

(* C3 as stated: for every query, stored rows and every integer limit,     *)
(* search returns at most limit records, the first limit entries of the    *)
(* sorted list of matching records.                                        *)
C3_Original ==
    \A t \in Searched :
        LET r == ret[t]
        IN  /\ Len(r.value) <= r.limit
            /\ IsFirstOfRanked(r.query, r.rows, r.value,
                               Min(r.limit, Cardinality(Matching(r.query, r.rows))))

(* C3 amended: for every query, stored rows and every limit >= 0, search   *)
(* returns at most limit records, the first limit entries of the sorted    *)
(* list of matching records; for a limit < 0 it returns the sorted list    *)
(* without its last -limit entries.                                        *)
C3_TruncatedToLimit ==
    \A t \in Searched :
        LET r == ret[t]
            m == Cardinality(Matching(r.query, r.rows))
        IN  /\ r.limit >= 0 =>
                /\ Len(r.value) <= r.limit
                /\ IsFirstOfRanked(r.query, r.rows, r.value, Min(r.limit, m))
            /\ r.limit < 0 =>
                IsFirstOfRanked(r.query, r.rows, r.value, Max(0, m + r.limit))

C3_Witness ==
    \E t \in Searched :
        /\ ret[t].limit = 1
        /\ Len(ret[t].value) = 1
        /\ Cardinality(Matching(ret[t].query, ret[t].rows)) = 3
        /\ ret[t].value[1] # ret[t].rows[1]

(* C4: in every sequence search returns, the records' scores against the   *)
(* query are non-increasing, and adjacent records with the same score are  *)
(* in non-increasing order of creation time.                               *)
C4_RankedOrder ==
    \A t \in Searched :
        LET r == ret[t]
        IN  \A i \in 1..(Len(r.value) - 1) :
                /\ RowScore(r.query, r.value[i]) >= RowScore(r.query, r.value[i + 1])
                /\ RowScore(r.query, r.value[i]) = RowScore(r.query, r.value[i + 1])
                      => TimeOf(r.value[i].created_at)
                            >= TimeOf(r.value[i + 1].created_at)

C4_Witness ==
    \E t \in Searched :
        LET r == ret[t]
        IN  /\ Len(r.value) = 3
            /\ RowScore(r.query, r.value[1]) > RowScore(r.query, r.value[2])
            /\ RowScore(r.query, r.value[2]) = RowScore(r.query, r.value[3])
            /\ TimeOf(r.value[2].created_at) > TimeOf(r.value[3].created_at)
            /\ r.value[2].id > r.value[3].id

(* C5: search never returns a record that scores 0 against the query; when *)
(* limit is at least the number of stored records that score above 0 it    *)
(* returns each of them exactly once; an empty or whitespace-only query,   *)
(* or one that matches no stored phrase, yields the empty sequence.        *)
C5_ExactlyTheMatches ==
    \A t \in Searched :
        LET r == ret[t]
            m == Matching(r.query, r.rows)
        IN  /\ \A i \in 1..Len(r.value) : RowScore(r.query, r.value[i]) > 0
            /\ r.limit >= Cardinality(m) =>
                  /\ Len(r.value) = Cardinality(m)
                  /\ \A j \in m :
                        Cardinality({i \in 1..Len(r.value) : r.value[i] = r.rows[j]}) = 1
            /\ (Canon(r.query) = << >> \/ m = {}) => r.value = << >>

C5_Witness ==
    \E t \in Searched :
        LET r == ret[t]
            m == Matching(r.query, r.rows)
        IN  /\ Cardinality(m) = 2
            /\ Len(r.rows) = 3
            /\ r.limit >= 2
            /\ Len(r.value) = 2

\* the matching rows in the one order that ranks by score, then by
\* creation time, then by the position the row was fetched at
Before(q, rows, i, j) ==
    \/ RowScore(q, rows[i]) > RowScore(q, rows[j])
    \/ /\ RowScore(q, rows[i]) = RowScore(q, rows[j])
       /\ \/ TimeOf(rows[i].created_at) > TimeOf(rows[j].created_at)
          \/ /\ rows[i].created_at = rows[j].created_at
             /\ i < j

PlaceOf(q, rows, i) ==
    1 + Cardinality({j \in Matching(q, rows) : Before(q, rows, j, i)})

(* C6: for a fixed query and fixed stored rows in a fixed row order, and   *)
(* every k >= 0, search with limit k returns a prefix of search with limit *)
(* k + 1, and the result is determined by the inputs alone, also when      *)
(* several matching records have the same score and the same createdAt:    *)
(* those come out in the order the rows were fetched in.                   *)
C6_PrefixAndDetermined ==
    \A t \in Searched :
        LET r == ret[t]
        IN  r.limit >= 0 =>
              /\ IsPrefix(r.value, SearchResult(r.query, r.limit + 1, r.rows))
              /\ \A i \in Matching(r.query, r.rows) :
                    PlaceOf(r.query, r.rows, i) <= r.limit
                       => /\ PlaceOf(r.query, r.rows, i) <= Len(r.value)
                          /\ r.value[PlaceOf(r.query, r.rows, i)] = r.rows[i]

C6_Witness ==
    \E t \in Searched :
        LET r == ret[t]
        IN  /\ r.limit = 2
            /\ Len(r.value) = 2
            /\ Cardinality(Matching(r.query, r.rows)) = 3
            /\ RowScore(r.query, r.value[1]) = RowScore(r.query, r.value[2])
            /\ r.value[1].created_at = r.value[2].created_at
            /\ RowScore(r.query, r.rows[1]) < RowScore(r.query, r.value[1])

(***************************************************************************)
(* Vocabulary of the claims about the store.                               *)
(***************************************************************************)
Ids == {mappings[i].id : i \in 1..Len(mappings)}

IdsDistinct ==
    \A i, j \in 1..Len(mappings) : i # j => mappings[i].id # mappings[j].id

Committing == {t \in Tasks : pc[t] = "am_commit" /\ pc'[t] = "am_close"}

(* C8: after any sequence of addMapping, addOwner, search, count and list  *)
(* operations the stored ids are pairwise distinct; every step keeps every *)
(* stored record as it was (same id, phrase, file_id, owner id, owner      *)
(* name, created_at, same place); the count never decreases and grows by   *)
(* exactly one with each addMapping that commits, whose new id is greater  *)
(* than every id assigned before; and the id an addMapping returns is the  *)
(* id of a stored record.                                                  *)
C8_AppendOnlyFreshIds ==
    /\ [](IdsDistinct
          /\ \A t \in Tasks :
                ret[t].op = "add_mapping" => ret[t].id \in Ids)
    /\ [][/\ Len(mappings') >= Len(mappings)
          /\ \A i \in 1..Len(mappings) : mappings'[i] = mappings[i]
          /\ Len(mappings') = Len(mappings) + Cardinality(Committing)
          /\ Cardinality(Committing) <= 1
          /\ \A i \in (Len(mappings) + 1)..Len(mappings') :
                /\ \A j \in Ids : mappings'[i].id > j
                /\ mappings'[i].id > seq]_vars

C8_Witness ==
    /\ Len(mappings) = 2
    /\ mappings[1].owner_user_id # mappings[2].owner_user_id
    /\ ret["t1"].op = "add_mapping"
    /\ ret["t1"].id = 2
    /\ ret["t2"].op = "add_owner"

(* C9: at most one of the concurrent add_mapping, add_owner and            *)
(* seed_owners calls is between acquiring the lock and releasing it, and   *)
(* it is the holder of the lock; a caller that is not in a call can always *)
(* run search, count, list and is_owner at once, the lock held or not;     *)
(* the add_mapping calls that have completed each left a record of its     *)
(* own: distinct ids, all stored, as many records as ids handed out.       *)
(* (Whether a read can start does not depend on its arguments; search is   *)
(* tried with a blank query, the reads of owners with user 1.)             *)
C9_SerializedWrites ==
    /\ Cardinality({t \in Tasks : pc[t] \in WriterPcs}) <= 1
    /\ \A t \in Tasks : pc[t] \in WriterPcs => lock = t
    /\ \A t \in Tasks :
          pc[t] = "idle" =>
              /\ ENABLED Search(t, Text(" "), 0)
              /\ ENABLED CountMappings(t)
              /\ ENABLED ListMappings(t, 1)
              /\ ENABLED ListMappingsPaginated(t, 1, 1)
              /\ ENABLED IsOwner(t, 1)
    /\ IdsDistinct
    /\ Len(mappings) = seq
    /\ \A t \in Tasks : ret[t].op = "add_mapping" => ret[t].id \in Ids
    /\ \A t, u \in Tasks :
          (t # u /\ ret[t].op = "add_mapping" /\ ret[u].op = "add_mapping")
             => ret[t].id # ret[u].id

C9_Witness ==
    /\ pc["t1"] = "am_close"
    /\ pc["t2"] = "am_lock"
    /\ lock = "t1"
    /\ Len(mappings) = 1

(***************************************************************************)
(* Vocabulary of the claims about the handlers.                            *)
(***************************************************************************)
CeilDiv(a, b) == CHOOSE k \in 0..a : k * b >= a /\ (k = 0 \/ (k - 1) * b < a)

PagingInRange(g) ==
    /\ g.total >= 1
    /\ 1 <= g.page
    /\ g.page <= CeilDiv(g.total, 50)
    /\ g.offset = (g.page - 1) * 50
    /\ 0 <= g.offset
    /\ g.offset < g.total

(* C7: in status, whatever the page argument, once count_mappings has      *)
(* returned a total >= 1 the effective page lies in [1, ceil(total/50)]    *)
(* and the offset handed to the page query is (page-1)*50, with            *)
(* 0 <= offset < total; the offset is below the number of stored records   *)
(* when the page is read, add_mapping calls in between included, so the    *)
(* page read returns at least one record.                                  *)
C7_OffsetWithinCount ==
    \A t \in Tasks :
        /\ pc[t] = "st_list" =>
              /\ PagingInRange(loc[t].paging)
              /\ loc[t].paging.offset < Len(mappings)
        /\ (ret[t].op = "status_cmd" /\ ret[t].reply = "page") =>
              /\ PagingInRange(ret[t].paging)
              /\ ret[t].paging.offset < Len(mappings)
              /\ ret[t].items >= 1

C7_Witness ==
    /\ pc["t1"] = "st_list"
    /\ loc["t1"].paging.page = 2
    /\ loc["t1"].paging.total = 51
    /\ Len(mappings) = 52

HandlerReplies == {"remember_cmd", "add_owner_cmd", "status_cmd"}

Configured(user) == user # None /\ user[1] \in owner_ids /\ user[1] # 0

FromAcceptedRemember(r) ==
    /\ Configured(r.owner_user_id)
    /\ r.phrase # << >>
    /\ r.phrase[1] # " "
    /\ r.phrase[Len(r.phrase)] # " "
    /\ r.file_id = "f1"

(* C10: every stored mapping, and every add_mapping call in progress,      *)
(* comes from a remember request of a sender in the configured owner list  *)
(* with a non-empty trimmed phrase and a replied-to video, and its owner   *)
(* id is in the stored owner set; a remember request that is answered      *)
(* without a call of add_mapping leaves the store unchanged; whether a     *)
(* remember, status or add_owner request is accepted depends on the        *)
(* configured list alone, which never changes, not on the stored owner     *)
(* set; add_owner adds its user to the stored set and no step changes or   *)
(* removes a stored owner row.                                             *)
C10_ConfiguredOwnersOnly ==
    /\ [](/\ \A i \in 1..Len(mappings) :
                /\ FromAcceptedRemember(mappings[i])
                /\ mappings[i].owner_user_id[1] \in DOMAIN owners
          /\ \A t \in Tasks :
                /\ loc[t].op = "add_mapping" =>
                      FromAcceptedRemember(
                          IF pc[t] \in {"am_lock", "am_insert"} THEN loc[t]
                          ELSE loc[t].row)
                /\ ret[t].op \in HandlerReplies =>
                      (ret[t].reply = "" <=> ~ Configured(ret[t].user))
                /\ loc[t].op = "status_cmd" => Configured(loc[t].user))
    /\ [][/\ owner_ids' = owner_ids
          /\ (\E t \in Tasks : ret'[t] # ret[t] /\ ret'[t].op = "remember_cmd")
                => UNCHANGED storeVars
          /\ \A u \in DOMAIN owners :
                u \in DOMAIN owners' /\ owners'[u] = owners[u]
          /\ \A t \in Tasks :
                (pc[t] = "ao_commit" /\ pc'[t] = "ao_close")
                   => loc[t].user_id \in DOMAIN owners']_vars

C10_Witness ==
    /\ 2 \in DOMAIN owners
    /\ 2 \notin owner_ids
    /\ Len(mappings) = 1
    /\ ret["t1"].op = "remember_cmd"
    /\ ret["t1"].user = Some(2)
    /\ ret["t1"].reply = ""
    /\ ret["t2"].op = "status_cmd"
    /\ ret["t2"].user = Some(2)
    /\ ret["t2"].reply = ""

====
